---- MODULE Spec2Model ----
(***************************************************************************)
(* Session / transcript state management of the interview-summary app.     *)
(*                                                                         *)
(* The repository holds two versions of the App component:                 *)
(*   app = "part_001" : src/unnamed/part_001 (live merge of transcription  *)
(*                      fragments, ERROR status, size guard)               *)
(*   app = "App"      : src/src/App.tsx (batch diarization only)           *)
(* Both render the same SummaryPanel / TranscriptView.  The version is     *)
(* fixed in Init; every handler is modelled per version (P1_ / App_).      *)
(*                                                                         *)
(* React semantics kept by the model:                                      *)
(*  - a handler runs to completion; the state it leaves is the last value  *)
(*    written by its setters;                                              *)
(*  - an async function is cut at each await; its continuation is an       *)
(*    action of its own;                                                   *)
(*  - a callback created inside startRecording reads the `status` of the   *)
(*    render in which startRecording was invoked (field `closure`).        *)
(***************************************************************************)
EXTENDS Integers, Sequences, FiniteSets, TLC

\* ---------------------------------------------------------------- bounds
MaxStreams == 2     \* microphone streams granted per page load
OneRecording == 1   \* of them, where a specification follows a single recording
MaxPending == 1     \* startRecording invocations suspended at an await
MaxFrags  == 1      \* live transcription messages delivered
MaxChunks == 2      \* recorder data segments kept in audioChunksRef
MaxDiar   == 2      \* diarization calls in flight
MaxGen    == 1      \* generation calls in flight
MaxMergeFrags == 3  \* live transcription messages delivered, in SpecMerge
MaxDocs   == 1      \* uploaded reference documents
StartTime == 10000  \* clock reading when the page is loaded
ChunkBytes == 10000000  \* bytes of one recorder data segment: one segment
                        \* encodes below the size limit, two encode above it
MaxReqDocs == 2     \* reference documents of a generation request, in SpecRequest
MaxSamples == 2     \* samples of an audio buffer, in SpecPcm

\* ------------------------------------------------------ program constants
TIME_THRESHOLD_MS == 3000
SizeLimit == 19922944          \* 19 * 1024 * 1024

Status == {"IDLE", "CONNECTING", "RECORDING", "PROCESSING", "ERROR"}
Apps == {"part_001", "App"}
NoError == "null"
NoBlob == <<-1>>
NullId == <<"null", 0>>
Ids == 1..MaxStreams

\* inputs
Deltas == {2999, 3001}
FragTexts == {<<"a">>}
MergeDeltas == {2999, 3000, 3001}
MergeTexts == {<<"a">>, <<"b">>, <<" ">>, <<>>}
EditTexts == {<<"e">>}
ChunkSizes == {0, ChunkBytes}
DocTypes == {"text/plain", "application/pdf"}
UploadTypes == {"text/plain"}
DiarRecords ==
  { <<>>,
    <<[speaker |-> "Nurse", text |-> <<"n">>], [speaker |-> "Client", text |-> <<"c">>]>> }
\* what the diarization service returns: a JSON array, an array wrapped in
\* prose or a code fence, an empty text, text that is no JSON, or a rejection
DiarResponses ==
  [kind : {"array", "fenced"}, records : DiarRecords]
    \cup [kind : {"empty", "garbage", "reject"}, records : {<<>>}]
GenResponses == {"text", "empty", "reject"}

VARIABLES
  app, apiKey,
  \* useState
  status, transcripts, summary, documents, errorMsg, recordedBlob,
  hasPostProcessed, isSessionFinished,
  \* useRef (0 = null, otherwise the id of the startRecording invocation that
  \* created the object)
  sessionRef, audioContextRef, streamRef, scriptProcessorRef, mediaRecorderRef,
  audioChunksRef, activeTranscriptIdRef, lastUpdateTimeRef,
  \* environment: clock, browser objects, pending continuations, calls in flight
  now, nStreams, starts, tracks, contexts, processors, recorders, channels,
  stops, diarCalls, genCalls,
  \* history
  nFrags, frags, pure,
  \* the realtime audio input handed to the live session last
  pcm

stateVars == <<status, transcripts, summary, documents, errorMsg, recordedBlob,
               hasPostProcessed, isSessionFinished>>
refVars == <<sessionRef, audioContextRef, streamRef, scriptProcessorRef,
             mediaRecorderRef, audioChunksRef, activeTranscriptIdRef,
             lastUpdateTimeRef>>
envVars == <<now, nStreams, starts, tracks, contexts, processors, recorders,
             channels, stops, diarCalls, genCalls>>
histVars == <<nFrags, frags, pure>>
vars == <<app, apiKey, stateVars, refVars, envVars, histVars, pcm>>

\* ---------------------------------------------------------------- helpers
RemoveAt(s, i) == SubSeq(s, 1, i - 1) \o SubSeq(s, i + 1, Len(s))

RECURSIVE Sum(_)
Sum(s) == IF s = <<>> THEN 0 ELSE Head(s) + Sum(Tail(s))

\* String.prototype.trim() leaves nothing
IsBlank(text) == \A i \in 1..Len(text) : text[i] = " "

\* arrayBufferToBase64(...).length of a blob of n bytes
Base64Len(n) == 4 * ((n + 2) \div 3)

Init ==
  /\ app \in Apps
  /\ apiKey \in BOOLEAN
  /\ status = "IDLE"
  /\ transcripts = <<>>
  /\ summary = ""
  /\ documents = <<>>
  /\ errorMsg = NoError
  /\ recordedBlob = NoBlob
  /\ hasPostProcessed = FALSE
  /\ isSessionFinished = FALSE
  /\ sessionRef = 0
  /\ audioContextRef = 0
  /\ streamRef = 0
  /\ scriptProcessorRef = 0
  /\ mediaRecorderRef = 0
  /\ audioChunksRef = <<>>
  /\ activeTranscriptIdRef = NullId
  /\ lastUpdateTimeRef = 0
  /\ now = StartTime
  /\ nStreams = 0
  /\ starts = {}
  /\ tracks = {}
  /\ contexts = {}
  /\ processors = {}
  /\ recorders = [k \in Ids |-> "none"]
  /\ channels = {}
  /\ stops = {}
  /\ diarCalls = <<>>
  /\ genCalls = <<>>
  /\ nFrags = 0
  /\ frags = <<>>
  /\ pure = TRUE
  /\ pcm = <<>>

\* a startRecording invocation suspended at getUserMedia, started from a
\* render whose status was st; it owns no stream yet (id 0)
NewStart(st) ==
  [id |-> 0, pc |-> "getUserMedia", closure |-> st,
   n |-> CHOOSE k \in 1..MaxPending :
           /\ \A t \in starts : t.n # k
           /\ \A j \in 1..(k - 1) : \E t \in starts : t.n = j]

\* ------------------------------------------------------------------------
\* part_001: startRecording
\* ------------------------------------------------------------------------

\* the condition under which the start button is rendered
\* faulty variant: the start button ignores the two session flags
P1_canStart_anySession ==
  \/ status = "IDLE"
  \/ status = "ERROR"
  \/ (status = "PROCESSING" /\ summary # "")

P1_canStart ==
  /\ \/ status = "IDLE"
     \/ status = "ERROR"
     \/ (status = "PROCESSING" /\ summary # "")
  /\ ~hasPostProcessed
  /\ ~isSessionFinished

\* catch block of startRecording
P1_catch(msg) ==
  /\ tracks' = tracks \ {streamRef}
  /\ streamRef' = 0
  /\ errorMsg' = msg
  /\ status' = "ERROR"

\* history: a handler other than the live merge touches the merge state; the
\* run stays a pure fragment sequence only if no fragment was merged yet
StillPure == pure /\ frags = <<>>

P1_startRecording(supported) ==
  /\ app = "part_001"
  /\ P1_canStart
  /\ IF ~apiKey
       THEN /\ errorMsg' = "API Key not found."
            /\ UNCHANGED <<status, recordedBlob, activeTranscriptIdRef, audioChunksRef,
                           tracks, streamRef, starts, pure>>
       ELSE /\ recordedBlob' = NoBlob
            /\ activeTranscriptIdRef' = NullId
            /\ audioChunksRef' = <<>>
            /\ pure' = StillPure
            /\ IF ~supported
                 THEN /\ P1_catch("start-failed")
                      /\ UNCHANGED starts
                 ELSE /\ Cardinality(starts) < MaxPending
                      /\ status' = "CONNECTING"
                      /\ errorMsg' = NoError
                      /\ starts' = starts \cup {NewStart(status)}
                      /\ UNCHANGED <<tracks, streamRef>>
  /\ UNCHANGED <<app, apiKey, transcripts, summary, documents, hasPostProcessed,
                 isSessionFinished, sessionRef, audioContextRef, scriptProcessorRef,
                 mediaRecorderRef, lastUpdateTimeRef, now, nStreams, contexts, processors,
                 recorders, channels, stops, diarCalls, genCalls, nFrags, frags>>
  /\ UNCHANGED pcm

\* lines 91-113: the context is stored, the recorder created and started, the
\* live connection requested
P1_setupRecorder(s, k) ==
  /\ audioContextRef' = k
  /\ recorders' = [recorders EXCEPT ![k] = "recording"]
  /\ mediaRecorderRef' = k
  /\ starts' = (starts \ {s}) \cup {[s EXCEPT !.id = k, !.pc = "connect"]}

\* getUserMedia settles; on success the AudioContext is constructed
P1_getUserMediaDone(s, ok, ctx) ==
  /\ app = "part_001"
  /\ s \in starts /\ s.pc = "getUserMedia"
  /\ IF ~ok
       THEN /\ P1_catch("start-failed")
            /\ starts' = starts \ {s}
            /\ UNCHANGED <<contexts, audioContextRef, recorders, mediaRecorderRef>>
       ELSE CASE ctx = "throws" ->
                   \* streamRef.current = stream, then the catch block stops it
                   /\ tracks' = tracks
                   /\ streamRef' = 0
                   /\ errorMsg' = "start-failed"
                   /\ status' = "ERROR"
                   /\ starts' = starts \ {s}
                   /\ UNCHANGED <<contexts, audioContextRef, recorders, mediaRecorderRef>>
              [] ctx = "suspended" ->
                   /\ nStreams < MaxStreams
                   /\ tracks' = tracks \cup {nStreams + 1}
                   /\ streamRef' = nStreams + 1
                   /\ contexts' = contexts \cup {nStreams + 1}
                   /\ starts' = (starts \ {s}) \cup
                                {[s EXCEPT !.id = nStreams + 1, !.pc = "resume"]}
                   /\ UNCHANGED <<errorMsg, status, audioContextRef, recorders,
                                  mediaRecorderRef>>
              [] ctx = "running" ->
                   /\ nStreams < MaxStreams
                   /\ tracks' = tracks \cup {nStreams + 1}
                   /\ streamRef' = nStreams + 1
                   /\ contexts' = contexts \cup {nStreams + 1}
                   /\ P1_setupRecorder(s, nStreams + 1)
                   /\ UNCHANGED <<errorMsg, status>>
  /\ nStreams' = IF ok /\ ctx # "throws" THEN nStreams + 1 ELSE nStreams
  /\ UNCHANGED <<app, apiKey, transcripts, summary, documents, recordedBlob,
                 hasPostProcessed, isSessionFinished, sessionRef, scriptProcessorRef,
                 audioChunksRef, activeTranscriptIdRef, lastUpdateTimeRef, now,
                 processors, channels, stops, diarCalls, genCalls, nFrags, frags, pure>>
  /\ UNCHANGED pcm

\* audioContext.resume() settles
P1_resumeDone(s, ok) ==
  /\ app = "part_001"
  /\ s \in starts /\ s.pc = "resume"
  /\ IF ok
       THEN /\ P1_setupRecorder(s, s.id)
            /\ UNCHANGED <<tracks, streamRef, errorMsg, status>>
       ELSE /\ P1_catch("start-failed")
            /\ starts' = starts \ {s}
            /\ UNCHANGED <<audioContextRef, recorders, mediaRecorderRef>>
  /\ UNCHANGED <<app, apiKey, transcripts, summary, documents, recordedBlob,
                 hasPostProcessed, isSessionFinished, sessionRef, scriptProcessorRef,
                 audioChunksRef, activeTranscriptIdRef, lastUpdateTimeRef, now, nStreams,
                 contexts, processors, channels, stops, diarCalls, genCalls, nFrags,
                 frags, pure>>
  /\ UNCHANGED pcm

\* the live channel opens: onopen runs, then `await sessionPromise` resumes
P1_onopen(s) ==
  /\ app = "part_001"
  /\ s \in starts /\ s.pc = "connect"
  /\ status' = "RECORDING"
  /\ IF s.id \in contexts
       THEN /\ processors' = processors \cup {s.id}
            /\ scriptProcessorRef' = s.id
       ELSE UNCHANGED <<processors, scriptProcessorRef>>
  /\ sessionRef' = s.id
  /\ channels' = channels \cup {[id |-> s.id, closure |-> s.closure]}
  /\ starts' = starts \ {s}
  /\ UNCHANGED <<app, apiKey, transcripts, summary, documents, errorMsg, recordedBlob,
                 hasPostProcessed, isSessionFinished, audioContextRef, streamRef,
                 mediaRecorderRef, audioChunksRef, activeTranscriptIdRef,
                 lastUpdateTimeRef, now, nStreams, tracks, contexts, recorders, stops,
                 diarCalls, genCalls, nFrags, frags, pure>>
  /\ UNCHANGED pcm

\* the live connection is refused: onerror (closure status), then the rejected
\* sessionPromise reaches the catch block
P1_connectFailed(s) ==
  /\ app = "part_001"
  /\ s \in starts /\ s.pc = "connect"
  /\ P1_catch("start-failed")
  /\ starts' = starts \ {s}
  /\ UNCHANGED <<app, apiKey, transcripts, summary, documents, recordedBlob,
                 hasPostProcessed, isSessionFinished, sessionRef, audioContextRef,
                 scriptProcessorRef, mediaRecorderRef, audioChunksRef,
                 activeTranscriptIdRef, lastUpdateTimeRef, now, nStreams, contexts,
                 processors, recorders, channels, stops, diarCalls, genCalls, nFrags,
                 frags, pure>>
  /\ UNCHANGED pcm

\* ------------------------------------------------------------------------
\* part_001: live merge
\* ------------------------------------------------------------------------

\* Array.prototype.findIndex, 1-based; 0 when no entry has the id
FindIndex(ts, id) ==
  IF \E i \in 1..Len(ts) : ts[i].id = id
    THEN CHOOSE i \in 1..Len(ts) :
           ts[i].id = id /\ \A j \in 1..(i - 1) : ts[j].id # id
    ELSE 0

\* faulty variant: the operands of the subtraction swapped
isRecent_swapped(t) == (lastUpdateTimeRef - t) < TIME_THRESHOLD_MS

\* faulty variant: the test admits a gap of exactly the threshold
isRecent_inclusive(t) == (t - lastUpdateTimeRef) <= TIME_THRESHOLD_MS

isRecent(t) == (t - lastUpdateTimeRef) < TIME_THRESHOLD_MS

\* faulty variant: the fragment replaces the text of the entry
appended_replacing(lastItem, text) == [lastItem EXCEPT !.text = text, !.isFinal = FALSE]

\* the entry a continuation fragment leaves behind
appended(lastItem, text) == [lastItem EXCEPT !.text = lastItem.text \o text, !.isFinal = FALSE]

\* returns the new transcript and the new values of the two refs it writes
processTranscriptUpdate(currentTranscripts, text, t, speaker) ==
  LET lastId == activeTranscriptIdRef
      lastItemIndex == FindIndex(currentTranscripts, lastId)
      newId == <<"t", t>>
  IN IF lastItemIndex # 0
        /\ currentTranscripts[lastItemIndex].speaker = speaker
        /\ isRecent(t)
       THEN [transcripts |-> [currentTranscripts EXCEPT
                                ![lastItemIndex] = appended(currentTranscripts[lastItemIndex], text)],
             activeId |-> lastId,
             lastUpdate |-> t]
       ELSE [transcripts |-> Append(currentTranscripts,
                                [id |-> newId, speaker |-> speaker, text |-> text,
                                 isFinal |-> TRUE]),
             activeId |-> newId,
             lastUpdate |-> t]

\* onmessage of an open live channel, d milliseconds after the previous clock
\* reading: handleTranscriptChunk(text) when text is truthy
P1_onmessage(text, d) ==
  /\ app = "part_001"
  /\ channels # {}
  /\ nFrags' = nFrags + 1
  /\ now' = now + d
  /\ IF text = <<>> \/ IsBlank(text)
       THEN UNCHANGED <<transcripts, activeTranscriptIdRef, lastUpdateTimeRef, frags>>
       ELSE LET r == processTranscriptUpdate(transcripts, text, now + d, "Staff")
            IN /\ transcripts' = r.transcripts
               /\ activeTranscriptIdRef' = r.activeId
               /\ lastUpdateTimeRef' = r.lastUpdate
               /\ frags' = Append(frags, [text |-> text, at |-> now + d])
  /\ UNCHANGED <<app, apiKey, status, summary, documents, errorMsg, recordedBlob,
                 hasPostProcessed, isSessionFinished, sessionRef, audioContextRef,
                 streamRef, scriptProcessorRef, mediaRecorderRef, audioChunksRef,
                 nStreams, starts, tracks, contexts, processors, recorders, channels,
                 stops, diarCalls, genCalls, pure>>
  /\ UNCHANGED pcm

\* updateTranscript(id, newText), from the textarea of entry i (rendered only
\* while status is not RECORDING)
P1_updateTranscript(i, newText) ==
  /\ app = "part_001"
  /\ status # "RECORDING"
  /\ i \in 1..Len(transcripts)
  /\ transcripts[i].text # newText
  /\ transcripts' = [j \in 1..Len(transcripts) |->
                       IF transcripts[j].id = transcripts[i].id
                         THEN [transcripts[j] EXCEPT !.text = newText]
                         ELSE transcripts[j]]
  /\ pure' = FALSE
  /\ UNCHANGED <<app, apiKey, status, summary, documents, errorMsg, recordedBlob,
                 hasPostProcessed, isSessionFinished, refVars, envVars, nFrags, frags>>
  /\ UNCHANGED pcm

\* ------------------------------------------------------------------------
\* part_001: recorder events, stopRecording
\* ------------------------------------------------------------------------

\* mediaRecorder.ondataavailable, timeslice segment of a running recorder
P1_ondataavailable(k, size) ==
  /\ app = "part_001"
  /\ recorders[k] = "recording" /\ k \in tracks
  /\ Len(audioChunksRef) < MaxChunks
  /\ audioChunksRef' = IF size > 0 THEN Append(audioChunksRef, size) ELSE audioChunksRef
  /\ UNCHANGED <<app, apiKey, stateVars, sessionRef, audioContextRef, streamRef,
                 scriptProcessorRef, mediaRecorderRef, activeTranscriptIdRef,
                 lastUpdateTimeRef, envVars, nFrags, frags, pure>>
  /\ UNCHANGED pcm

\* analyzeAudioAndDiarize(blob) up to its first await (lines 357-365)
P1_analyzeCalled(blob) == apiKey

\* faulty variant: issuing the new call drops the calls still in flight
P1_stopTail_cancelling(chunks, thenMsg) ==
  LET analyze == Len(chunks) > 0 /\ P1_analyzeCalled(chunks)
  IN /\ recordedBlob' = IF Len(chunks) > 0 THEN chunks ELSE recordedBlob
     /\ diarCalls' = IF analyze
                       THEN <<[blob |-> chunks, stage |-> "encode"]>>
                       ELSE <<>>
     /\ errorMsg' = IF thenMsg # NoError THEN thenMsg
                    ELSE IF analyze THEN NoError ELSE errorMsg
     /\ activeTranscriptIdRef' = NullId
     /\ status' = "IDLE"
     /\ isSessionFinished' = TRUE
     /\ pure' = StillPure

\* lines 241-250 of stopRecording, run with the segments `chunks`
P1_stopTail(chunks, thenMsg) ==
  LET analyze == Len(chunks) > 0 /\ P1_analyzeCalled(chunks)
  IN /\ analyze => Len(diarCalls) < MaxDiar
     /\ recordedBlob' = IF Len(chunks) > 0 THEN chunks ELSE recordedBlob
     /\ diarCalls' = IF analyze
                       THEN Append(diarCalls, [blob |-> chunks, stage |-> "encode"])
                       ELSE diarCalls
     /\ errorMsg' = IF thenMsg # NoError THEN thenMsg
                    ELSE IF analyze THEN NoError ELSE errorMsg
     /\ activeTranscriptIdRef' = NullId
     /\ status' = "IDLE"
     /\ isSessionFinished' = TRUE
     /\ pure' = StillPure

\* stopRecording with the live channels `chs`; thenMsg is the message set by
\* the caller once the returned promise resolves (onclose), or NoError
P1_stop(chs, thenMsg) ==
  /\ processors' = processors \ {scriptProcessorRef}
  /\ scriptProcessorRef' = 0
  /\ tracks' = tracks \ {streamRef}
  /\ streamRef' = 0
  /\ contexts' = contexts \ {audioContextRef}
  /\ audioContextRef' = 0
  /\ channels' = {c \in chs : c.id # sessionRef}
  /\ sessionRef' = 0
  /\ IF mediaRecorderRef # 0 /\ recorders[mediaRecorderRef] = "recording"
       THEN /\ recorders' = [recorders EXCEPT ![mediaRecorderRef] = "stopping"]
            /\ stops' = stops \cup {[rec |-> mediaRecorderRef, thenMsg |-> thenMsg]}
            /\ UNCHANGED <<recordedBlob, diarCalls, errorMsg, activeTranscriptIdRef,
                           status, isSessionFinished, pure>>
       ELSE /\ P1_stopTail(audioChunksRef, thenMsg)
            /\ UNCHANGED <<recorders, stops>>
  /\ UNCHANGED <<app, apiKey, transcripts, summary, documents, hasPostProcessed,
                 mediaRecorderRef, audioChunksRef, lastUpdateTimeRef, now, nStreams,
                 starts, genCalls, nFrags, frags>>

\* the stop button, rendered while status is RECORDING
P1_stopRecording ==
  /\ app = "part_001"
  /\ status = "RECORDING"
  /\ P1_stop(channels, NoError)
  /\ UNCHANGED pcm

\* the recorder delivers its last segment and fires `stop`: after stop(), or
\* after its tracks have ended; a stopRecording awaiting onstop resumes
P1_recorderFinal(k, size) ==
  /\ app = "part_001"
  /\ \/ recorders[k] = "stopping"
     \/ (recorders[k] = "recording" /\ k \notin tracks)
  /\ size > 0 => Len(audioChunksRef) < MaxChunks
  /\ recorders' = [recorders EXCEPT ![k] = "inactive"]
  /\ LET chunks == IF size > 0 THEN Append(audioChunksRef, size) ELSE audioChunksRef
     IN /\ audioChunksRef' = chunks
        /\ IF \E st \in stops : st.rec = k
             THEN LET st == CHOOSE x \in stops : x.rec = k
                  IN /\ stops' = stops \ {st}
                     /\ P1_stopTail(chunks, st.thenMsg)
             ELSE UNCHANGED <<stops, recordedBlob, diarCalls, errorMsg,
                              activeTranscriptIdRef, status, isSessionFinished, pure>>
  /\ UNCHANGED <<app, apiKey, transcripts, summary, documents, hasPostProcessed,
                 sessionRef, audioContextRef, streamRef, scriptProcessorRef,
                 mediaRecorderRef, lastUpdateTimeRef, now, nStreams, starts, tracks,
                 contexts, processors, channels, genCalls, nFrags, frags>>
  /\ UNCHANGED pcm

\* the 1000 ms timer of stopRecording fires before the recorder's `stop`
P1_stopTimeout(st) ==
  /\ app = "part_001"
  /\ st \in stops
  /\ stops' = stops \ {st}
  /\ P1_stopTail(audioChunksRef, st.thenMsg)
  /\ UNCHANGED <<app, apiKey, transcripts, summary, documents, hasPostProcessed,
                 sessionRef, audioContextRef, streamRef, scriptProcessorRef,
                 mediaRecorderRef, audioChunksRef, lastUpdateTimeRef, now, nStreams,
                 starts, tracks, contexts, processors, recorders, channels, genCalls,
                 nFrags, frags>>
  /\ UNCHANGED pcm

\* onclose of live channel c
P1_onclose(c) ==
  /\ app = "part_001"
  /\ c \in channels
  /\ IF c.closure = "RECORDING"
       THEN P1_stop(channels \ {c}, "connection-closed")
       ELSE /\ channels' = channels \ {c}
            /\ UNCHANGED <<app, apiKey, stateVars, refVars, now, nStreams, starts, tracks,
                           contexts, processors, recorders, stops, diarCalls, genCalls,
                           nFrags, frags, pure>>
  /\ UNCHANGED pcm

\* onerror of live channel c after it has opened
P1_onerror(c) ==
  /\ app = "part_001"
  /\ c \in channels
  /\ IF c.closure = "CONNECTING"
       THEN /\ errorMsg' = "connection-error"
            /\ status' = "ERROR"
       ELSE UNCHANGED <<errorMsg, status>>
  /\ UNCHANGED <<app, apiKey, transcripts, summary, documents, recordedBlob,
                 hasPostProcessed, isSessionFinished, refVars, envVars, nFrags, frags,
                 pure>>
  /\ UNCHANGED pcm

\* ------------------------------------------------------------------------
\* part_001: resetSession (the confirm dialog answered with OK)
\* ------------------------------------------------------------------------
P1_resetSession ==
  /\ app = "part_001"
  /\ processors' = processors \ {scriptProcessorRef}
  /\ scriptProcessorRef' = 0
  /\ tracks' = tracks \ {streamRef}
  /\ streamRef' = 0
  /\ contexts' = contexts \ {audioContextRef}
  /\ audioContextRef' = 0
  /\ channels' = {c \in channels : c.id # sessionRef}
  /\ sessionRef' = 0
  /\ recorders' = IF mediaRecorderRef # 0 /\ recorders[mediaRecorderRef] = "recording"
                    THEN [recorders EXCEPT ![mediaRecorderRef] = "stopping"]
                    ELSE recorders
  /\ status' = "IDLE"
  /\ transcripts' = <<>>
  /\ summary' = ""
  /\ documents' = <<>>
  /\ recordedBlob' = NoBlob
  /\ errorMsg' = NoError
  /\ hasPostProcessed' = FALSE
  /\ isSessionFinished' = FALSE
  /\ activeTranscriptIdRef' = NullId
  /\ audioChunksRef' = <<>>
  /\ frags' = <<>>
  /\ pure' = TRUE
  /\ UNCHANGED <<app, apiKey, mediaRecorderRef, lastUpdateTimeRef, now, nStreams, starts,
                 stops, diarCalls, genCalls, nFrags>>
  /\ UNCHANGED pcm

\* ------------------------------------------------------------------------
\* part_001: analyzeAudioAndDiarize after its awaits
\* ------------------------------------------------------------------------

\* faulty variant: the failure also drops the transcript
P1_diarizeFailed_clearing(msg) ==
  /\ errorMsg' = msg
  /\ status' = "IDLE"
  /\ transcripts' = <<>>
  /\ UNCHANGED <<hasPostProcessed, pure>>

\* faulty variant: the finally block is missing
P1_diarizeFailed_noFinally(msg) ==
  /\ errorMsg' = msg
  /\ UNCHANGED <<status, transcripts, hasPostProcessed, pure>>

\* catch + finally of analyzeAudioAndDiarize
P1_diarizeFailed(msg) ==
  /\ errorMsg' = msg
  /\ status' = "IDLE"
  /\ UNCHANGED <<transcripts, hasPostProcessed, pure>>

\* faulty variant: the entries are built last record first
P1_newTranscripts_reversed(parsed) ==
  [i \in 1..Len(parsed) |->
     [id |-> <<"post-process", i - 1>>, speaker |-> parsed[Len(parsed) + 1 - i].speaker,
      text |-> parsed[Len(parsed) + 1 - i].text, isFinal |-> TRUE]]

\* lines 409-415: the entries built from the parsed response
P1_newTranscripts(parsed) ==
  [i \in 1..Len(parsed) |->
     [id |-> <<"post-process", i - 1>>, speaker |-> parsed[i].speaker,
      text |-> parsed[i].text, isFinal |-> TRUE]]

\* lines 365-371: the blob is read and encoded; the size guard
P1_encoded(i) ==
  /\ app = "part_001"
  /\ i \in 1..Len(diarCalls) /\ diarCalls[i].stage = "encode"
  /\ IF Base64Len(Sum(diarCalls[i].blob)) > SizeLimit
       THEN /\ diarCalls' = RemoveAt(diarCalls, i)
            /\ P1_diarizeFailed("too-large")
       ELSE /\ diarCalls' = [diarCalls EXCEPT ![i].stage = "sent"]
            /\ UNCHANGED <<errorMsg, status, transcripts, hasPostProcessed, pure>>
  /\ UNCHANGED <<app, apiKey, summary, documents, recordedBlob, isSessionFinished,
                 refVars, now, nStreams, starts, tracks, contexts, processors, recorders,
                 channels, stops, genCalls, nFrags, frags>>
  /\ UNCHANGED pcm

\* lines 374-425: generateContent settles with response resp
P1_diarizeDone(i, resp) ==
  /\ app = "part_001"
  /\ i \in 1..Len(diarCalls) /\ diarCalls[i].stage = "sent"
  /\ diarCalls' = RemoveAt(diarCalls, i)
  /\ IF resp.kind = "array"
       THEN /\ transcripts' = P1_newTranscripts(resp.records)
            /\ hasPostProcessed' = TRUE
            /\ status' = "IDLE"
            /\ pure' = FALSE
            /\ UNCHANGED errorMsg
       ELSE P1_diarizeFailed("diarization-failed")
  /\ UNCHANGED <<app, apiKey, summary, documents, recordedBlob, isSessionFinished,
                 refVars, now, nStreams, starts, tracks, contexts, processors, recorders,
                 channels, stops, genCalls, nFrags, frags>>
  /\ UNCHANGED pcm

\* ------------------------------------------------------------------------
\* SummaryPanel, documents, part_001 generateSummary
\* ------------------------------------------------------------------------

\* faulty variant: the button is disabled only while recording
canGenerate_recordingOnly == ~(status = "RECORDING")

\* SummaryPanel: the generate button is enabled
canGenerate == ~(status = "PROCESSING" \/ status = "RECORDING")

handleFileUpload(type) ==
  /\ Len(documents) < MaxDocs
  /\ documents' = Append(documents, [type |-> type])
  /\ UNCHANGED <<app, apiKey, status, transcripts, summary, errorMsg, recordedBlob,
                 hasPostProcessed, isSessionFinished, refVars, envVars, nFrags, frags,
                 pure>>
  /\ UNCHANGED pcm

removeDocument(i) ==
  /\ i \in 1..Len(documents)
  /\ documents' = RemoveAt(documents, i)
  /\ UNCHANGED <<app, apiKey, status, transcripts, summary, errorMsg, recordedBlob,
                 hasPostProcessed, isSessionFinished, refVars, envVars, nFrags, frags,
                 pure>>
  /\ UNCHANGED pcm

\* the request handed to the generation service (what it was built from)
GenRequest == [empty |-> (Len(transcripts) = 0 /\ Len(documents) = 0)]

P1_generateSummary ==
  /\ app = "part_001"
  /\ canGenerate
  /\ IF ~apiKey
       THEN UNCHANGED <<status, genCalls>>
       ELSE /\ Len(genCalls) < MaxGen
            /\ status' = "PROCESSING"
            /\ genCalls' = Append(genCalls, GenRequest)
  /\ UNCHANGED <<app, apiKey, transcripts, summary, documents, errorMsg, recordedBlob,
                 hasPostProcessed, isSessionFinished, refVars, now, nStreams, starts,
                 tracks, contexts, processors, recorders, channels, stops, diarCalls,
                 nFrags, frags, pure>>
  /\ UNCHANGED pcm

P1_generateDone(i, resp) ==
  /\ app = "part_001"
  /\ i \in 1..Len(genCalls)
  /\ genCalls' = RemoveAt(genCalls, i)
  /\ summary' = CASE resp = "text" -> "summary"
                  [] resp = "empty" -> "generation-failed-placeholder"
                  [] OTHER -> summary
  /\ errorMsg' = IF resp = "reject" THEN "summary-failed" ELSE errorMsg
  /\ status' = "IDLE"
  /\ UNCHANGED <<app, apiKey, transcripts, documents, recordedBlob, hasPostProcessed,
                 isSessionFinished, refVars, now, nStreams, starts, tracks, contexts,
                 processors, recorders, channels, stops, diarCalls, nFrags, frags, pure>>
  /\ UNCHANGED pcm

\* ------------------------------------------------------------------------
\* App.tsx: startRecording
\* ------------------------------------------------------------------------
App_canStart == ~isSessionFinished /\ status = "IDLE" /\ ~hasPostProcessed

\* catch block of startRecording
App_catch(msg) ==
  /\ errorMsg' = msg
  /\ status' = "IDLE"
  /\ tracks' = tracks \ {streamRef}

App_startRecording ==
  /\ app = "App"
  /\ App_canStart
  /\ IF ~apiKey
       THEN /\ errorMsg' = "api-key-missing"
            /\ UNCHANGED <<status, transcripts, summary, audioChunksRef, starts,
                           frags, pure>>
       ELSE /\ errorMsg' = NoError
            /\ transcripts' = <<>>
            /\ summary' = ""
            /\ audioChunksRef' = <<>>
            /\ Cardinality(starts) < MaxPending
            /\ status' = "CONNECTING"
            /\ starts' = starts \cup {NewStart(status)}
            /\ frags' = <<>>
            /\ pure' = TRUE
  /\ UNCHANGED <<app, apiKey, documents, recordedBlob, hasPostProcessed,
                 isSessionFinished, sessionRef, audioContextRef, streamRef,
                 scriptProcessorRef, mediaRecorderRef, activeTranscriptIdRef,
                 lastUpdateTimeRef, now, nStreams, tracks, contexts, processors,
                 recorders, channels, stops, diarCalls, genCalls, nFrags>>
  /\ UNCHANGED pcm

\* getUserMedia settles; on success the recorder is started and the
\* AudioContext constructed (lines 115-137)
App_getUserMediaDone(s, ok, ctx) ==
  /\ app = "App"
  /\ s \in starts /\ s.pc = "getUserMedia"
  /\ IF ~ok
       THEN /\ App_catch("start-failed")
            /\ starts' = starts \ {s}
            /\ UNCHANGED <<streamRef, recorders, mediaRecorderRef, contexts>>
       ELSE /\ nStreams < MaxStreams
            /\ streamRef' = nStreams + 1
            /\ recorders' = [recorders EXCEPT ![nStreams + 1] = "recording"]
            /\ mediaRecorderRef' = nStreams + 1
            /\ IF ctx = "throws"
                 THEN /\ errorMsg' = "start-failed"
                      /\ status' = "IDLE"
                      /\ tracks' = tracks
                      /\ starts' = starts \ {s}
                      /\ UNCHANGED contexts
                 ELSE /\ tracks' = tracks \cup {nStreams + 1}
                      /\ contexts' = contexts \cup {nStreams + 1}
                      /\ starts' = (starts \ {s}) \cup
                                   {[s EXCEPT !.id = nStreams + 1, !.pc = "resume"]}
                      /\ UNCHANGED <<errorMsg, status>>
  /\ nStreams' = IF ok THEN nStreams + 1 ELSE nStreams
  /\ UNCHANGED <<app, apiKey, transcripts, summary, documents, recordedBlob,
                 hasPostProcessed, isSessionFinished, sessionRef, audioContextRef,
                 scriptProcessorRef, audioChunksRef, activeTranscriptIdRef,
                 lastUpdateTimeRef, now, processors, channels, stops,
                 diarCalls, genCalls, nFrags, frags, pure>>
  /\ UNCHANGED pcm

App_resumeDone(s, ok) ==
  /\ app = "App"
  /\ s \in starts /\ s.pc = "resume"
  /\ IF ok
       THEN /\ audioContextRef' = s.id
            /\ starts' = (starts \ {s}) \cup {[s EXCEPT !.pc = "connect"]}
            /\ UNCHANGED <<errorMsg, status, tracks>>
       ELSE /\ App_catch("start-failed")
            /\ starts' = starts \ {s}
            /\ UNCHANGED audioContextRef
  /\ UNCHANGED <<app, apiKey, transcripts, summary, documents, recordedBlob,
                 hasPostProcessed, isSessionFinished, sessionRef, streamRef,
                 scriptProcessorRef, mediaRecorderRef, audioChunksRef,
                 activeTranscriptIdRef, lastUpdateTimeRef, now, nStreams, contexts,
                 processors, recorders, channels, stops, diarCalls, genCalls, nFrags,
                 frags, pure>>
  /\ UNCHANGED pcm

\* the live channel opens: onopen runs, then `await ai.live.connect` resumes
\* (lines 161-197)
App_onopen(s) ==
  /\ app = "App"
  /\ s \in starts /\ s.pc = "connect"
  /\ status' = "RECORDING"
  /\ sessionRef' = s.id
  /\ processors' = processors \cup {s.id}
  /\ scriptProcessorRef' = s.id
  /\ channels' = channels \cup {[id |-> s.id, closure |-> s.closure]}
  /\ starts' = starts \ {s}
  /\ UNCHANGED <<app, apiKey, transcripts, summary, documents, errorMsg, recordedBlob,
                 hasPostProcessed, isSessionFinished, audioContextRef, streamRef,
                 mediaRecorderRef, audioChunksRef, activeTranscriptIdRef,
                 lastUpdateTimeRef, now, nStreams, tracks, contexts, recorders, stops,
                 diarCalls, genCalls, nFrags, frags, pure>>
  /\ UNCHANGED pcm

App_connectFailed(s) ==
  /\ app = "App"
  /\ s \in starts /\ s.pc = "connect"
  /\ App_catch("start-failed")
  /\ starts' = starts \ {s}
  /\ UNCHANGED <<app, apiKey, transcripts, summary, documents, recordedBlob,
                 hasPostProcessed, isSessionFinished, refVars, now, nStreams, contexts,
                 processors, recorders, channels, stops, diarCalls, genCalls, nFrags,
                 frags, pure>>
  /\ UNCHANGED pcm

\* onmessage: the transcription text is read and dropped (lines 165-171)
App_onmessage(text) ==
  /\ app = "App"
  /\ channels # {}
  /\ UNCHANGED vars
  /\ UNCHANGED pcm

\* onclose: logs only
App_onclose(c) ==
  /\ app = "App"
  /\ c \in channels
  /\ channels' = channels \ {c}
  /\ UNCHANGED <<app, apiKey, stateVars, refVars, now, nStreams, starts, tracks,
                 contexts, processors, recorders, stops, diarCalls, genCalls, nFrags,
                 frags, pure>>
  /\ UNCHANGED pcm

\* ------------------------------------------------------------------------
\* App.tsx: recorder events, stopRecording
\* ------------------------------------------------------------------------
App_ondataavailable(k, size) ==
  /\ app = "App"
  /\ recorders[k] = "recording" /\ k \in tracks
  /\ Len(audioChunksRef) < MaxChunks
  /\ audioChunksRef' = IF size > 0 THEN Append(audioChunksRef, size) ELSE audioChunksRef
  /\ UNCHANGED <<app, apiKey, stateVars, sessionRef, audioContextRef, streamRef,
                 scriptProcessorRef, mediaRecorderRef, activeTranscriptIdRef,
                 lastUpdateTimeRef, envVars, nFrags, frags, pure>>
  /\ UNCHANGED pcm

\* stopRecording(isError) invoked from a render whose status is renderStatus;
\* thenMsg is the message the caller sets right after the call, or NoError
App_stop(renderStatus, isError, thenMsg) ==
  IF renderStatus # "RECORDING" /\ renderStatus # "CONNECTING"
    THEN /\ errorMsg' = IF thenMsg # NoError THEN thenMsg ELSE errorMsg
         /\ UNCHANGED <<sessionRef, processors, scriptProcessorRef, contexts,
                        audioContextRef, tracks, streamRef, recorders, stops, status,
                        isSessionFinished>>
    ELSE /\ sessionRef' = 0
         /\ processors' = processors \ {scriptProcessorRef}
         /\ scriptProcessorRef' = 0
         /\ contexts' = contexts \ {audioContextRef}
         /\ audioContextRef' = 0
         /\ tracks' = tracks \ {streamRef}
         /\ streamRef' = 0
         /\ errorMsg' = IF thenMsg # NoError THEN thenMsg ELSE errorMsg
         /\ IF mediaRecorderRef # 0 /\ recorders[mediaRecorderRef] = "recording"
              THEN /\ recorders' = [recorders EXCEPT ![mediaRecorderRef] = "stopping"]
                   /\ stops' = stops \cup {[rec |-> mediaRecorderRef, isError |-> isError]}
                   /\ UNCHANGED <<status, isSessionFinished>>
              ELSE /\ status' = "IDLE"
                   /\ isSessionFinished' = TRUE
                   /\ UNCHANGED <<recorders, stops>>

\* the stop button, rendered while status is RECORDING
App_stopRecording ==
  /\ app = "App"
  /\ status = "RECORDING"
  /\ App_stop(status, FALSE, NoError)
  /\ UNCHANGED <<app, apiKey, transcripts, summary, documents, recordedBlob,
                 hasPostProcessed, mediaRecorderRef, audioChunksRef,
                 activeTranscriptIdRef, lastUpdateTimeRef, now, nStreams, starts,
                 channels, diarCalls, genCalls, nFrags, frags, pure>>
  /\ UNCHANGED pcm

\* onerror of live channel c after it has opened (lines 175-182)
App_onerror(c) ==
  /\ app = "App"
  /\ c \in channels
  /\ IF c.closure = "RECORDING"
       THEN App_stop(c.closure, TRUE, "connection-lost")
       ELSE UNCHANGED <<sessionRef, processors, scriptProcessorRef, contexts,
                        audioContextRef, tracks, streamRef, recorders, stops, status,
                        isSessionFinished, errorMsg>>
  /\ UNCHANGED <<app, apiKey, transcripts, summary, documents, recordedBlob,
                 hasPostProcessed, mediaRecorderRef, audioChunksRef,
                 activeTranscriptIdRef, lastUpdateTimeRef, now, nStreams, starts,
                 channels, diarCalls, genCalls, nFrags, frags, pure>>
  /\ UNCHANGED pcm

\* analyzeAudioAndDiarize(audioBlob) up to its first await (lines 264-273)
App_analyzeCalled(blob) == apiKey

\* the recorder delivers its last segment and fires `stop`; onstop builds the
\* blob and the awaiting stopRecording resumes (lines 240-257)
App_recorderFinal(k, size) ==
  /\ app = "App"
  /\ \/ recorders[k] = "stopping"
     \/ (recorders[k] = "recording" /\ k \notin tracks)
  /\ size > 0 => Len(audioChunksRef) < MaxChunks
  /\ recorders' = [recorders EXCEPT ![k] = "inactive"]
  /\ LET chunks == IF size > 0 THEN Append(audioChunksRef, size) ELSE audioChunksRef
     IN /\ audioChunksRef' = chunks
        /\ IF \E st \in stops : st.rec = k
             THEN LET st == CHOOSE x \in stops : x.rec = k
                      analyze == ~st.isError /\ App_analyzeCalled(chunks)
                  IN /\ stops' = stops \ {st}
                     /\ recordedBlob' = chunks
                     /\ isSessionFinished' = TRUE
                     /\ analyze => Len(diarCalls) < MaxDiar
                     /\ diarCalls' = IF analyze
                                       THEN Append(diarCalls,
                                                   [blob |-> chunks, stage |-> "encode"])
                                       ELSE diarCalls
                     /\ status' = IF st.isError THEN "IDLE"
                                  ELSE IF analyze THEN "PROCESSING" ELSE status
                     /\ errorMsg' = IF analyze THEN NoError ELSE errorMsg
             ELSE UNCHANGED <<stops, recordedBlob, isSessionFinished, diarCalls, status,
                              errorMsg>>
  /\ UNCHANGED <<app, apiKey, transcripts, summary, documents, hasPostProcessed,
                 sessionRef, audioContextRef, streamRef, scriptProcessorRef,
                 mediaRecorderRef, activeTranscriptIdRef, lastUpdateTimeRef, now,
                 nStreams, starts, tracks, contexts, processors, channels, genCalls,
                 nFrags, frags, pure>>
  /\ UNCHANGED pcm

\* ------------------------------------------------------------------------
\* App.tsx: analyzeAudioAndDiarize after its awaits
\* ------------------------------------------------------------------------

\* line 336: the speaker of a response record as stored
App_speaker(sp) == IF sp = "Staff" \/ sp = "Client" THEN sp ELSE "Staff"

\* lines 334-340: the entries built from the parsed response
App_newTranscripts(result) ==
  [i \in 1..Len(result) |->
     [id |-> <<"auto", i - 1>>, speaker |-> App_speaker(result[i].speaker),
      text |-> result[i].text, isFinal |-> TRUE]]

\* lines 313-331: whether an array is isolated from the response text and parsed
App_parses(resp) == resp.kind = "array" \/ resp.kind = "fenced"

\* line 273: the blob is read and encoded, the request is sent
App_encoded(i) ==
  /\ app = "App"
  /\ i \in 1..Len(diarCalls) /\ diarCalls[i].stage = "encode"
  /\ diarCalls' = [diarCalls EXCEPT ![i].stage = "sent"]
  /\ UNCHANGED <<app, apiKey, stateVars, refVars, now, nStreams, starts, tracks,
                 contexts, processors, recorders, channels, stops, genCalls, nFrags,
                 frags, pure>>
  /\ UNCHANGED pcm

\* lines 277-350: generateContent settles with response resp
App_diarizeDone(i, resp) ==
  /\ app = "App"
  /\ i \in 1..Len(diarCalls) /\ diarCalls[i].stage = "sent"
  /\ diarCalls' = RemoveAt(diarCalls, i)
  /\ IF App_parses(resp)
       THEN /\ transcripts' = App_newTranscripts(resp.records)
            /\ hasPostProcessed' = TRUE
            /\ status' = "IDLE"
            /\ pure' = FALSE
            /\ UNCHANGED errorMsg
       ELSE /\ errorMsg' = "diarization-failed"
            /\ status' = "IDLE"
            /\ UNCHANGED <<transcripts, hasPostProcessed, pure>>
  /\ UNCHANGED <<app, apiKey, summary, documents, recordedBlob, isSessionFinished,
                 refVars, now, nStreams, starts, tracks, contexts, processors, recorders,
                 channels, stops, genCalls, nFrags, frags>>
  /\ UNCHANGED pcm

\* ------------------------------------------------------------------------
\* App.tsx: generateSummary, updateTranscript, resetSession
\* ------------------------------------------------------------------------

\* lines 355-358: nothing to summarise
App_emptyInput == Len(transcripts) = 0 /\ Len(documents) = 0

App_generateSummary ==
  /\ app = "App"
  /\ canGenerate
  /\ IF ~apiKey
       THEN UNCHANGED <<status, genCalls>>
       ELSE IF App_emptyInput
         THEN UNCHANGED <<status, genCalls>>
         ELSE /\ Len(genCalls) < MaxGen
              /\ status' = "PROCESSING"
              /\ genCalls' = Append(genCalls, GenRequest)
  /\ UNCHANGED <<app, apiKey, transcripts, summary, documents, errorMsg, recordedBlob,
                 hasPostProcessed, isSessionFinished, refVars, now, nStreams, starts,
                 tracks, contexts, processors, recorders, channels, stops, diarCalls,
                 nFrags, frags, pure>>
  /\ UNCHANGED pcm

App_generateDone(i, resp) ==
  /\ app = "App"
  /\ i \in 1..Len(genCalls)
  /\ genCalls' = RemoveAt(genCalls, i)
  /\ summary' = CASE resp = "text" -> "summary"
                  [] resp = "empty" -> ""
                  [] OTHER -> summary
  /\ errorMsg' = IF resp = "reject" THEN "summary-failed" ELSE errorMsg
  /\ status' = "IDLE"
  /\ UNCHANGED <<app, apiKey, transcripts, documents, recordedBlob, hasPostProcessed,
                 isSessionFinished, refVars, now, nStreams, starts, tracks, contexts,
                 processors, recorders, channels, stops, diarCalls, nFrags, frags, pure>>
  /\ UNCHANGED pcm

\* updateTranscript(id, text, true), from the textarea of entry i
App_updateTranscript(i, text) ==
  /\ app = "App"
  /\ status # "RECORDING"
  /\ i \in 1..Len(transcripts)
  /\ transcripts[i].text # text
  /\ transcripts' = [j \in 1..Len(transcripts) |->
                       IF transcripts[j].id = transcripts[i].id
                         THEN [transcripts[j] EXCEPT !.text = text, !.isFinal = TRUE]
                         ELSE transcripts[j]]
  /\ pure' = FALSE
  /\ UNCHANGED <<app, apiKey, status, summary, documents, errorMsg, recordedBlob,
                 hasPostProcessed, isSessionFinished, refVars, envVars, nFrags, frags>>
  /\ UNCHANGED pcm

\* resetSession, the confirm dialog answered with OK
App_resetSession ==
  /\ app = "App"
  /\ IF status = "RECORDING"
       THEN /\ sessionRef' = 0
            /\ tracks' = tracks \ {streamRef}
       ELSE UNCHANGED <<sessionRef, tracks>>
  /\ transcripts' = <<>>
  /\ summary' = ""
  /\ documents' = <<>>
  /\ recordedBlob' = NoBlob
  /\ hasPostProcessed' = FALSE
  /\ isSessionFinished' = FALSE
  /\ errorMsg' = NoError
  /\ status' = "IDLE"
  /\ frags' = <<>>
  /\ pure' = TRUE
  /\ UNCHANGED <<app, apiKey, audioContextRef, streamRef, scriptProcessorRef,
                 mediaRecorderRef, audioChunksRef, activeTranscriptIdRef,
                 lastUpdateTimeRef, now, nStreams, starts, contexts, processors,
                 recorders, channels, stops, diarCalls, genCalls, nFrags>>
  /\ UNCHANGED pcm

\* ------------------------------------------------------------------------
\* next-state relation
\* ------------------------------------------------------------------------
\* recording, batch calls and documents within one session
NextRecording ==
  \/ \E supported \in BOOLEAN : P1_startRecording(supported)
  \/ \E s \in starts, ok \in BOOLEAN, ctx \in {"running", "suspended", "throws"} :
       /\ (ok /\ ctx # "throws") => nStreams < OneRecording
       /\ P1_getUserMediaDone(s, ok, ctx)
  \/ \E s \in starts, ok \in BOOLEAN : P1_resumeDone(s, ok)
  \/ \E s \in starts : P1_onopen(s)
  \/ \E s \in starts : P1_connectFailed(s)
  \/ \E k \in Ids, size \in ChunkSizes : P1_ondataavailable(k, size)
  \/ P1_stopRecording
  \/ \E k \in Ids, size \in ChunkSizes : P1_recorderFinal(k, size)
  \/ \E st \in stops : P1_stopTimeout(st)
  \/ \E c \in channels : P1_onclose(c)
  \/ \E c \in channels : P1_onerror(c)
  \/ \E i \in 1..MaxDiar : P1_encoded(i)
  \/ \E i \in 1..MaxDiar, resp \in DiarResponses : P1_diarizeDone(i, resp)
  \/ P1_generateSummary
  \/ \E i \in 1..MaxGen, resp \in GenResponses : P1_generateDone(i, resp)
  \/ \E type \in UploadTypes : handleFileUpload(type)
  \/ \E i \in 1..MaxDocs : removeDocument(i)
  \/ App_startRecording
  \/ \E s \in starts, ok \in BOOLEAN, ctx \in {"running", "throws"} :
       /\ ok => nStreams < OneRecording
       /\ App_getUserMediaDone(s, ok, ctx)
  \/ \E s \in starts, ok \in BOOLEAN : App_resumeDone(s, ok)
  \/ \E s \in starts : App_onopen(s)
  \/ \E s \in starts : App_connectFailed(s)
  \/ \E c \in channels : App_onclose(c)
  \/ \E c \in channels : App_onerror(c)
  \/ \E k \in Ids, size \in ChunkSizes : App_ondataavailable(k, size)
  \/ App_stopRecording
  \/ \E k \in Ids, size \in ChunkSizes : App_recorderFinal(k, size)
  \/ \E i \in 1..MaxDiar : App_encoded(i)
  \/ \E i \in 1..MaxDiar, resp \in DiarResponses : App_diarizeDone(i, resp)
  \/ App_generateSummary
  \/ \E i \in 1..MaxGen, resp \in GenResponses : App_generateDone(i, resp)

\* the session steps, and resetSession starting a fresh session
NextSession ==
  \/ NextRecording
  \/ P1_resetSession
  \/ App_resetSession

\* live transcription messages and edits of transcript entries
NextTranscript ==
  \/ \E text \in FragTexts, d \in Deltas : nFrags < MaxFrags /\ P1_onmessage(text, d)
  \/ \E i \in 1..Len(transcripts), newText \in EditTexts : P1_updateTranscript(i, newText)
  \/ \E text \in FragTexts : App_onmessage(text)
  \/ \E i \in 1..Len(transcripts), text \in EditTexts : App_updateTranscript(i, text)

Next == NextSession \/ NextTranscript

Spec == Init /\ [][Next]_vars

\* one session from page load on: resetSession is never confirmed
SpecOneSession == Init /\ [][NextRecording]_vars

\* ------------------------------------------------------------------------
\* the live merge on its own: one part_001 recording fed with fragments at
\* every offset around the threshold, then stopped and edited
\* ------------------------------------------------------------------------
InitMerge == Init /\ app = "part_001" /\ apiKey

NextMerge ==
  \/ P1_startRecording(TRUE)
  \/ \E s \in starts : nStreams < OneRecording /\ P1_getUserMediaDone(s, TRUE, "running")
  \/ \E s \in starts : P1_onopen(s)
  \/ \E text \in MergeTexts, d \in MergeDeltas :
       nFrags < MaxMergeFrags /\ P1_onmessage(text, d)
  \/ P1_stopRecording
  \/ \E st \in stops : P1_stopTimeout(st)
  \/ \E i \in 1..Len(transcripts), newText \in EditTexts : P1_updateTranscript(i, newText)

SpecMerge == InitMerge /\ [][NextMerge]_vars

\* ------------------------------------------------------------------------
\* properties of the live merge
\* ------------------------------------------------------------------------

\* the texts of a fragment log, concatenated in arrival order
RECURSIVE ConcatTexts(_)
ConcatTexts(fs) == IF fs = <<>> THEN <<>> ELSE Head(fs).text \o ConcatTexts(Tail(fs))

\* every fragment of the log but the first arrived within / beyond the
\* continuation threshold of its predecessor
AllWithin(fs) == \A i \in 2..Len(fs) : fs[i].at - fs[i - 1].at < TIME_THRESHOLD_MS
AllBeyond(fs) == \A i \in 2..Len(fs) : fs[i].at - fs[i - 1].at > TIME_THRESHOLD_MS

\* C1: a run of non-whitespace fragments handled by handleTranscriptChunk /
\* processTranscriptUpdate, all by the same speaker, each less than 3000 ms
\* after the previous one and starting with no active entry, leaves a
\* transcript of exactly one entry whose text is the fragments' texts
\* concatenated in arrival order.
C1_OneEntryConcatenated ==
  (pure /\ frags # <<>> /\ AllWithin(frags)) =>
     /\ Len(transcripts) = 1
     /\ transcripts[1].text = ConcatTexts(frags)
     /\ transcripts[1].speaker = "Staff"

\* three fragments "a", "b", "a" merged into one entry
C1_Witness ==
  /\ pure /\ Len(frags) = 3 /\ AllWithin(frags)
  /\ frags[1].text = <<"a">> /\ frags[2].text = <<"b">> /\ frags[3].text = <<"a">>
  /\ Len(transcripts) = 1 /\ transcripts[1].text = <<"a", "b", "a">>

\* C2: in a run of fragments where each arrives more than 3000 ms after the
\* previous one, every fragment has an entry of its own with a distinct id,
\* and the entries are in arrival order.
C2_OneEntryEach ==
  (pure /\ AllBeyond(frags)) =>
     /\ Len(transcripts) = Len(frags)
     /\ \A i \in 1..Len(frags) : transcripts[i].text = frags[i].text
     /\ \A i, j \in 1..Len(transcripts) : i # j => transcripts[i].id # transcripts[j].id

\* three fragments "a", "b", "a", 3001 ms apart, in three entries
C2_Witness ==
  /\ pure /\ Len(frags) = 3 /\ AllBeyond(frags)
  /\ Len(transcripts) = 3
  /\ transcripts[1].text = <<"a">> /\ transcripts[2].text = <<"b">>
  /\ transcripts[3].text = <<"a">>

\* ------------------------------------------------------------------------
\* properties of diarization
\* ------------------------------------------------------------------------

\* the step is the successful completion of diarization call i with resp
DiarizeSucceeds(i, resp) ==
  /\ Len(diarCalls') < Len(diarCalls)
  /\ \/ (resp.kind = "array" /\ P1_diarizeDone(i, resp))
     \/ (App_parses(resp) /\ App_diarizeDone(i, resp))

\* the step is the failure of diarization call i: the size guard, or a
\* response that is rejected, empty or not parseable
DiarizeFails(i, resp) ==
  /\ Len(diarCalls') < Len(diarCalls)
  /\ \/ P1_encoded(i)
     \/ (resp.kind # "array" /\ P1_diarizeDone(i, resp))
     \/ (~App_parses(resp) /\ App_diarizeDone(i, resp))

\* C3: when a diarization call completes successfully, the transcript
\* afterwards is exactly the entries built from the response records, one per
\* record and in response order; nothing of the earlier transcript remains.
C3_SuccessReplacesTranscript ==
  [][\A i \in 1..MaxDiar, resp \in DiarResponses :
       DiarizeSucceeds(i, resp) =>
         /\ Len(transcripts') = Len(resp.records)
         /\ \A j \in 1..Len(resp.records) :
              /\ transcripts'[j].text = resp.records[j].text
              /\ transcripts'[j].isFinal
              /\ transcripts'[j].id \in {<<"post-process", j - 1>>, <<"auto", j - 1>>}]_vars

\* a live-merged transcript has been replaced by the two response entries
C3_Witness ==
  /\ hasPostProcessed /\ frags # <<>>
  /\ Len(transcripts) = 2
  /\ transcripts[1].text = <<"n">> /\ transcripts[2].text = <<"c">>

\* C4: when a diarization call fails (service error, empty or unparseable
\* response, oversized payload) the transcript is left as it was, an error
\* message is set, and the generate button is enabled afterwards.
C4_FailureKeepsTranscript ==
  [][\A i \in 1..MaxDiar, resp \in DiarResponses :
       DiarizeFails(i, resp) =>
         /\ transcripts' = transcripts
         /\ hasPostProcessed' = hasPostProcessed
         /\ errorMsg' \in {"too-large", "diarization-failed"}
         /\ canGenerate']_vars

\* a failed diarization has left a live-merged transcript in place
C4_Witness ==
  /\ errorMsg \in {"too-large", "diarization-failed"}
  /\ transcripts # <<>> /\ ~hasPostProcessed /\ isSessionFinished
  /\ status = "IDLE"

\* ------------------------------------------------------------------------
\* properties of the status machine
\* ------------------------------------------------------------------------

\* the step is an accepted start request: startRecording reaches CONNECTING
StartAccepted ==
  /\ \/ \E supported \in BOOLEAN : P1_startRecording(supported)
     \/ App_startRecording
  /\ status' = "CONNECTING"

\* C5: a start request is accepted only when status is IDLE (ERROR, from
\* which the status machine retries, is allowed for here); in particular not
\* while a batch call keeps the status at PROCESSING.
C5_StartOnlyWhenIdle ==
  [][StartAccepted => status \in {"IDLE", "ERROR"}]_vars

\* the step hands a request to the generation service
GenerateStarted ==
  /\ P1_generateSummary \/ App_generateSummary
  /\ genCalls' # genCalls

\* C6 as stated: generation cannot be started while status is RECORDING and
\* can be started while status is PROCESSING or IDLE.
C6_Original ==
  /\ status = "RECORDING" => ~canGenerate
  /\ status \in {"PROCESSING", "IDLE"} => canGenerate

\* C6 as the code has it: generation is never started while status is
\* RECORDING or PROCESSING, and the generate button is enabled while status
\* is IDLE.
C6_NotWhileRecordingOrProcessing ==
  /\ [][GenerateStarted => status \notin {"RECORDING", "PROCESSING"}]_vars
  /\ [](status = "IDLE" => canGenerate)

\* a generation call started from IDLE is in flight
C6_Witness ==
  /\ status = "PROCESSING" /\ genCalls # <<>> /\ diarCalls = <<>>

\* C7: a generation request made with an empty transcript and no reference
\* document makes no external call: no request built from empty input is ever
\* in flight.
C7_NoCallOnEmptyInput ==
  \A i \in 1..Len(genCalls) : ~genCalls[i].empty

\* C8: from the stop request until the diarization call it issued has
\* completed, status is PROCESSING: it is never IDLE while a diarization call
\* is pending.
C8_NeverIdleWhilePending ==
  diarCalls # <<>> => status # "IDLE"

\* ------------------------------------------------------------------------
\* every batch call settles: the promise of each pending call is resolved or
\* rejected, and the continuation of its await runs.  The status machine is
\* followed through NextSession; the steps of NextTranscript read and write
\* neither status nor the pending calls.
\* ------------------------------------------------------------------------
DiarizeEncoded == \E i \in 1..MaxDiar : P1_encoded(i) \/ App_encoded(i)
DiarizeSettled ==
  \E i \in 1..MaxDiar, resp \in DiarResponses :
    P1_diarizeDone(i, resp) \/ App_diarizeDone(i, resp)
GenerateSettled ==
  \E i \in 1..MaxGen, resp \in GenResponses :
    P1_generateDone(i, resp) \/ App_generateDone(i, resp)

FairSpec ==
  /\ Init /\ [][NextSession]_vars
  /\ WF_vars(DiarizeEncoded) /\ WF_vars(DiarizeSettled) /\ WF_vars(GenerateSettled)

\* the step is the failure of a generation call
GenerateFails == \E i \in 1..MaxGen : P1_generateDone(i, "reject") \/ App_generateDone(i, "reject")

\* C9: whenever status is PROCESSING it eventually becomes IDLE, given that the
\* pending call settles; and a call that fails leaves status IDLE, not
\* PROCESSING nor ERROR.
C9_ProcessingLeadsToIdle ==
  /\ (status = "PROCESSING") ~> (status = "IDLE")
  /\ [][(GenerateFails \/ \E i \in 1..MaxDiar, resp \in DiarResponses : DiarizeFails(i, resp))
          => status' = "IDLE"]_vars

\* a failed generation call has left the session IDLE with its error shown
C9_Witness ==
  /\ status = "IDLE" /\ errorMsg = "summary-failed" /\ genCalls = <<>>

\* the step is the close of a live channel while the session is RECORDING
ChannelClosesWhileRecording ==
  /\ status = "RECORDING"
  /\ \E c \in channels : P1_onclose(c) \/ App_onclose(c)

\* C10: when the live channel closes after status has reached RECORDING, the
\* recording is stopped and routed on: the close does not leave the session
\* recording with nothing handed to diarization.
C10_CloseRoutesToProcessing ==
  [][ChannelClosesWhileRecording =>
        \/ status' = "PROCESSING"
        \/ stops' # stops
        \/ diarCalls' # diarCalls]_vars

\* ------------------------------------------------------------------------
\* batch calls against reset, stop and start
\* ------------------------------------------------------------------------

\* the step delivers the result of a diarization call that was issued before
\* the last resetSession: isSessionFinished is set by the stop that issues the
\* call (part_001 line 250, App.tsx line 254) and cleared only by resetSession,
\* so a call that settles while it is FALSE belongs to the session reset away
StaleDiarizationDelivered ==
  /\ ~isSessionFinished
  /\ Len(diarCalls') < Len(diarCalls)

\* C11: a diarization result delivered after resetSession is discarded: it
\* changes neither the transcript, the summary, the status, the error message
\* nor the post-processed flag of the fresh session.
C11_StaleResultDiscarded ==
  [][StaleDiarizationDelivered =>
        UNCHANGED <<transcripts, summary, status, errorMsg, hasPostProcessed>>]_vars

\* the step belongs to stopRecording: the stop button, or the continuation
\* of a stopRecording that awaited the recorder (onstop, or the 1000 ms timer)
StopStep ==
  \/ P1_stopRecording
  \/ App_stopRecording
  \/ \E st \in stops : P1_stopTimeout(st)
  \/ /\ stops # {}
     /\ \E k \in Ids, size \in ChunkSizes : P1_recorderFinal(k, size) \/ App_recorderFinal(k, size)

\* the step is the completion of a generation call with a text
GenerateSucceeds == \E i \in 1..MaxGen : P1_generateDone(i, "text") \/ App_generateDone(i, "text")

\* C12: a stop request issued while a diarization or generation call is in
\* flight does not cancel that call: every step of stopRecording leaves the
\* pending calls pending (it may add its own diarization call after them), and
\* a call that completes has its result applied whatever happened meanwhile:
\* the transcript is replaced by the response entries, or the summary is set.
C12_StopKeepsPendingCalls ==
  [][/\ (Len(diarCalls) + Len(genCalls) > 0 /\ StopStep) =>
          /\ genCalls' = genCalls
          /\ Len(diarCalls') >= Len(diarCalls)
          /\ SubSeq(diarCalls', 1, Len(diarCalls)) = diarCalls
     /\ (Len(genCalls') < Len(genCalls) /\ GenerateSucceeds) => summary' = "summary"
     /\ \A i \in 1..MaxDiar, resp \in DiarResponses :
          DiarizeSucceeds(i, resp) =>
            hasPostProcessed' /\ Len(transcripts') = Len(resp.records)]_vars

\* a stop has been requested and awaits the recorder while a generation call
\* is in flight
C12_Witness ==
  /\ stops # {} /\ genCalls # <<>>

\* C13: at no reachable state is a diarization or generation call in flight
\* while a recording is connecting or recording.
C13_NoCallWhileRecording ==
  status \in {"CONNECTING", "RECORDING"} => (diarCalls = <<>> /\ genCalls = <<>>)

\* C14: at most one external batch call is in flight at any time: generation
\* is never started while diarization is pending, nor the other way round.
C14_AtMostOneBatchCall ==
  Len(diarCalls) + Len(genCalls) <= 1

\* ------------------------------------------------------------------------
\* failure of startRecording
\* ------------------------------------------------------------------------

\* the step is startRecording invocation s failing before RECORDING:
\* getUserMedia is refused, the AudioContext cannot be constructed or resumed,
\* or the live connection is refused; each ends in the catch block
StartFails(s) ==
  /\ Cardinality(starts') < Cardinality(starts)
  /\ \/ \E ok \in BOOLEAN, ctx \in {"running", "suspended", "throws"} :
          /\ ~ok \/ ctx = "throws"
          /\ P1_getUserMediaDone(s, ok, ctx) \/ App_getUserMediaDone(s, ok, ctx)
     \/ P1_resumeDone(s, FALSE) \/ App_resumeDone(s, FALSE)
     \/ P1_connectFailed(s) \/ App_connectFailed(s)

\* C15: on every path where startRecording fails before RECORDING, status
\* ends IDLE or ERROR and the media resources acquired so far are released:
\* the microphone tracks are stopped and the audio context is closed.  (The
\* recorder is left out: it ends by itself once its tracks have ended.)
C15_FailedStartReleasesMedia ==
  [][\A s \in starts :
       StartFails(s) =>
         /\ status' \in {"IDLE", "ERROR"}
         /\ s.id # 0 => (s.id \notin tracks' /\ s.id \notin contexts')]_vars

\* ------------------------------------------------------------------------
\* edits of transcript entries
\* ------------------------------------------------------------------------

\* the step is updateTranscript called with the id of entry i and newText
EditStep(i, newText) == P1_updateTranscript(i, newText) \/ App_updateTranscript(i, newText)

\* C16: editing an entry's text by id changes only that entry's text: its id,
\* its speaker and its position, every other entry, and the active-entry
\* reference are unchanged.
C16_EditChangesOnlyText ==
  [][\A i \in 1..Len(transcripts), newText \in EditTexts :
       EditStep(i, newText) =>
         /\ Len(transcripts') = Len(transcripts)
         /\ transcripts'[i].text = newText
         /\ transcripts'[i].id = transcripts[i].id
         /\ transcripts'[i].speaker = transcripts[i].speaker
         /\ \A j \in 1..Len(transcripts) : j # i => transcripts'[j] = transcripts[j]
         /\ activeTranscriptIdRef' = activeTranscriptIdRef]_vars

\* ------------------------------------------------------------------------
\* the request and the result of diarization
\* ------------------------------------------------------------------------

\* C17: a recording whose encoding exceeds 19 MB is rejected up front: no
\* diarization request carrying such a recording is ever handed to the
\* external service.
C17_OversizedNeverSent ==
  \A i \in 1..Len(diarCalls) :
    diarCalls[i].stage = "sent" => Base64Len(Sum(diarCalls[i].blob)) <= SizeLimit

\* C18: after a successful diarization every entry of the transcript is
\* final and has a speaker of the fixed set {Staff, Client}: a response record
\* with any other speaker is stored as Staff, with the record's text.
C18_SpeakersCoerced ==
  hasPostProcessed =>
    \A i \in 1..Len(transcripts) :
      /\ transcripts[i].isFinal
      /\ transcripts[i].speaker \in {"Staff", "Client"}

\* ------------------------------------------------------------------------
\* start and retry
\* ------------------------------------------------------------------------

\* C19: a start request that takes the session from IDLE to CONNECTING clears
\* the prior transcript and the prior error message: once CONNECTING, the
\* transcript is empty and no error is shown.
C19_StartClearsTranscript ==
  [][(status = "IDLE" /\ StartAccepted) =>
        (transcripts' = <<>> /\ errorMsg' = NoError)]_vars

\* the step is the failure of the live connection of a start that is still
\* connecting
ConnectFails == \E s \in starts : P1_connectFailed(s) \/ App_connectFailed(s)

\* the step is a start request made while status is ERROR
RetryRequested ==
  /\ status = "ERROR"
  /\ P1_startRecording(TRUE) \/ App_startRecording

\* C20: an unrecoverable failure of the live channel while CONNECTING sets
\* status to ERROR with an error message, and a start request made in ERROR
\* with the credential present moves the status to CONNECTING.
C20_ConnectFailureToError ==
  [][/\ ConnectFails => (status' = "ERROR" /\ errorMsg' # NoError)
     /\ (RetryRequested /\ apiKey) => status' = "CONNECTING"]_vars

\* ------------------------------------------------------------------------
\* resetSession
\* ------------------------------------------------------------------------

\* the step is resetSession, its confirm dialog answered with OK
ResetStep == P1_resetSession \/ App_resetSession

\* C21: resetSession, performed from any status, leaves the session with an
\* empty transcript, no reference documents, an empty recording buffer, no
\* active-entry reference, no error message and status IDLE.
C21_ResetClearsSession ==
  [][ResetStep =>
        /\ transcripts' = <<>>
        /\ documents' = <<>>
        /\ audioChunksRef' = <<>>
        /\ activeTranscriptIdRef' = NullId
        /\ errorMsg' = NoError
        /\ status' = "IDLE"]_vars

\* ------------------------------------------------------------------------
\* the request built by generateSummary
\* ------------------------------------------------------------------------
\* A request is a sequence of parts: a text part with the segments of its
\* text in order, or an inlineData part carrying document number doc.  A
\* segment is an interpolated value or a fixed heading of the template string;
\* an interpolated empty string contributes no segment.
CustomInstructions == {"", "custom"}

Seg(kind, form, who, text, doc) ==
  [seg |-> kind, form |-> form, who |-> who, text |-> text, doc |-> doc]
Heading == Seg("heading", "", "", <<>>, 0)
TextPart(segs) == [part |-> "text", segs |-> segs, doc |-> 0]
DataPart(i) == [part |-> "inlineData", segs |-> <<>>, doc |-> i]

\* part_001 lines 477-480: the prompt text
P1_promptSegs(custom, ts) ==
  <<Seg("instruction", "", "", <<>>, 0)>>
    \o (IF custom # "" THEN <<Seg("custom", "", "", <<>>, 0)>> ELSE <<>>)
    \o <<Heading, Heading>>
    \o [i \in 1..Len(ts) |->
          Seg("line", "[time] role: text",
              IF ts[i].speaker = "Staff" THEN "shien-in" ELSE "riyousha", ts[i].text, 0)]

\* part_001 lines 489-501: the parts pushed for documents i..Len(docs)
RECURSIVE P1_documentParts(_, _)
P1_documentParts(docs, i) ==
  IF i > Len(docs) THEN <<>>
  ELSE (IF docs[i].type = "text/plain"
          THEN <<TextPart(<<Seg("textdoc", "", "", <<>>, i)>>)>>
          ELSE <<DataPart(i), TextPart(<<Seg("backref", "", "", <<>>, i)>>)>>)
       \o P1_documentParts(docs, i + 1)

\* part_001 lines 474-503: the parts of the request
P1_requestParts(custom, ts, docs) ==
  <<TextPart(P1_promptSegs(custom, ts))>>
    \o (IF Len(docs) > 0
          THEN <<TextPart(<<Heading>>)>> \o P1_documentParts(docs, 1)
          ELSE <<>>)

\* App.tsx lines 389-395: the sections of the text documents i..Len(docs)
RECURSIVE App_textDocSegs(_, _)
App_textDocSegs(docs, i) ==
  IF i > Len(docs) THEN <<>>
  ELSE (IF docs[i].type \in {"text/plain", "application/json"}
          THEN <<Seg("textdoc", "", "", <<>>, i)>> ELSE <<>>)
       \o App_textDocSegs(docs, i + 1)

\* App.tsx lines 401-411: the attachments of the binary documents i..Len(docs)
RECURSIVE App_binaryParts(_, _)
App_binaryParts(docs, i) ==
  IF i > Len(docs) THEN <<>>
  ELSE (IF docs[i].type \notin {"text/plain", "application/json"}
          THEN <<DataPart(i)>> ELSE <<>>)
       \o App_binaryParts(docs, i + 1)

\* App.tsx lines 362-410: the parts of the request
App_requestParts(custom, ts, docs) ==
  LET textDocs == App_textDocSegs(docs, 1)
      fullPrompt ==
        <<Heading, Seg("instruction", "", "", <<>>, 0), Heading>>
          \o (IF custom # "" THEN <<Seg("custom", "", "", <<>>, 0)>> ELSE <<>>)
          \o <<Heading>>
          \o (IF Len(ts) > 0
                THEN [i \in 1..Len(ts) |->
                        Seg("line", "[speaker]: text", ts[i].speaker, ts[i].text, 0)]
                ELSE <<Seg("placeholder", "", "", <<>>, 0)>>)
          \o (IF Len(textDocs) > 0 THEN <<Heading>> \o textDocs ELSE <<>>)
  IN <<TextPart(fullPrompt)>> \o App_binaryParts(docs, 1)

\* the request of the running version for the session's transcript and documents
RequestParts(custom) ==
  IF app = "part_001" THEN P1_requestParts(custom, transcripts, documents)
                      ELSE App_requestParts(custom, transcripts, documents)

\* a request without its fixed headings, and without the parts that consist
\* of headings only
NoHeadings(segs) == SelectSeq(segs, LAMBDA x : x.seg # "heading")
WithoutHeadings(parts) ==
  SelectSeq([i \in 1..Len(parts) |-> [parts[i] EXCEPT !.segs = NoHeadings(@)]],
            LAMBDA x : x.part = "inlineData" \/ x.segs # <<>>)

\* one generateSummary per session state, documents and transcript drawn from
\* what uploads and a diarization can have left
InitRequest ==
  /\ app \in Apps
  /\ apiKey \in BOOLEAN
  /\ status = "IDLE"
  /\ \E n \in 0..MaxReqDocs : documents \in [1..n -> [type : DocTypes]]
  /\ transcripts \in
       { <<>>,
         <<[id |-> <<IF app = "App" THEN "auto" ELSE "post-process", 0>>,
            speaker |-> "Staff", text |-> <<"n">>, isFinal |-> TRUE],
           [id |-> <<IF app = "App" THEN "auto" ELSE "post-process", 1>>,
            speaker |-> "Client", text |-> <<"c">>, isFinal |-> TRUE]>> }
  /\ hasPostProcessed = (transcripts # <<>>)
  /\ isSessionFinished = (transcripts # <<>>)
  /\ recordedBlob = IF transcripts # <<>> THEN <<ChunkBytes>> ELSE NoBlob
  /\ summary = ""
  /\ errorMsg = NoError
  /\ sessionRef = 0
  /\ audioContextRef = 0
  /\ streamRef = 0
  /\ scriptProcessorRef = 0
  /\ mediaRecorderRef = 0
  /\ audioChunksRef = <<>>
  /\ activeTranscriptIdRef = NullId
  /\ lastUpdateTimeRef = 0
  /\ now = StartTime
  /\ nStreams = 0
  /\ starts = {}
  /\ tracks = {}
  /\ contexts = {}
  /\ processors = {}
  /\ recorders = [k \in Ids |-> "none"]
  /\ channels = {}
  /\ stops = {}
  /\ diarCalls = <<>>
  /\ genCalls = <<>>
  /\ nFrags = 0
  /\ frags = <<>>
  /\ pure = FALSE
  /\ pcm = <<>>

NextRequest ==
  \/ P1_generateSummary
  \/ \E i \in 1..MaxGen, resp \in GenResponses : P1_generateDone(i, resp)
  \/ App_generateSummary
  \/ \E i \in 1..MaxGen, resp \in GenResponses : App_generateDone(i, resp)

SpecRequest == InitRequest /\ [][NextRequest]_vars

\* the parts in the order the assembly rule gives: one text part holding the
\* instruction, the custom instruction if non-empty, the transcript lines (or
\* the placeholder) and the text documents; then, per binary document, its
\* attachment and a text part naming it
RECURSIVE OrderedTextDocs(_, _)
OrderedTextDocs(docs, i) ==
  IF i > Len(docs) THEN <<>>
  ELSE (IF docs[i].type \in {"text/plain", "application/json"}
          THEN <<Seg("textdoc", "", "", <<>>, i)>> ELSE <<>>)
       \o OrderedTextDocs(docs, i + 1)

RECURSIVE OrderedAttachments(_, _)
OrderedAttachments(docs, i) ==
  IF i > Len(docs) THEN <<>>
  ELSE (IF docs[i].type \notin {"text/plain", "application/json"}
          THEN <<DataPart(i), TextPart(<<Seg("backref", "", "", <<>>, i)>>)>> ELSE <<>>)
       \o OrderedAttachments(docs, i + 1)

OrderedParts(custom, ts, docs) ==
  <<TextPart(<<Seg("instruction", "", "", <<>>, 0)>>
               \o (IF custom # "" THEN <<Seg("custom", "", "", <<>>, 0)>> ELSE <<>>)
               \o (IF Len(ts) > 0
                     THEN [i \in 1..Len(ts) |->
                             Seg("line", "[speaker]: text", ts[i].speaker, ts[i].text, 0)]
                     ELSE <<Seg("placeholder", "", "", <<>>, 0)>>)
               \o OrderedTextDocs(docs, 1))>>
    \o OrderedAttachments(docs, 1)

\* C22: the request built by generateSummary has its parts in the fixed
\* order: the template's instruction text, then the custom instruction only
\* if non-empty, then the transcript as [speaker]: text lines in transcript
\* order (or the placeholder when the transcript is empty), then the text
\* documents inline, then, after the text prompt, one attachment per binary
\* document, each immediately followed by a text part naming it.
C22_RequestPartsOrdered ==
  [][GenerateStarted =>
       \A custom \in CustomInstructions :
         WithoutHeadings(RequestParts(custom)) =
           OrderedParts(custom, transcripts, documents)]_vars

\* ------------------------------------------------------------------------
\* audioUtils: createPcmBlob
\* ------------------------------------------------------------------------
\* A Float32 sample is the rational n / SampleDen, held as its numerator n.
SampleDen == 4
SampleNums == {-SampleDen - 1, -SampleDen, -1, 0, 1, SampleDen, SampleDen + 1}

\* Math.max(-1, Math.min(1, x)), on numerators
Min(a, b) == IF a < b THEN a ELSE b
Max(a, b) == IF a > b THEN a ELSE b
\* faulty variant: the sample is not clamped
clamp_none(n) == n
clamp(n) == Max(-SampleDen, Min(SampleDen, n))

\* storing a number into an Int16Array: the fraction is dropped (towards
\* zero) and the integer is taken modulo 2^16 into -32768..32767
TruncDiv(a, b) == IF a >= 0 THEN a \div b ELSE -((-a) \div b)
ToInt16(x) == ((x + 32768) % 65536) - 32768

\* lines 16-17: int16[i] for sample n / SampleDen
quantize(n) ==
  LET s == clamp(n)
  IN ToInt16(TruncDiv(IF s < 0 THEN s * 32768 ELSE s * 32767, SampleDen))

\* new Uint8Array(int16.buffer): two bytes per sample, low byte first
RECURSIVE Int16Bytes(_)
Int16Bytes(int16) ==
  IF int16 = <<>> THEN <<>>
  ELSE LET u == Head(int16) % 65536
       IN <<u % 256, u \div 256>> \o Int16Bytes(Tail(int16))

\* btoa: the base64 characters of a byte string, as their 6-bit values; 64 is
\* the padding character
RECURSIVE base64Encode(_)
base64Encode(bytes) ==
  CASE Len(bytes) = 0 -> <<>>
    [] Len(bytes) = 1 -> <<bytes[1] \div 4, (bytes[1] % 4) * 16, 64, 64>>
    [] Len(bytes) = 2 -> <<bytes[1] \div 4, (bytes[1] % 4) * 16 + bytes[2] \div 16,
                           (bytes[2] % 16) * 4, 64>>
    [] OTHER -> <<bytes[1] \div 4, (bytes[1] % 4) * 16 + bytes[2] \div 16,
                  (bytes[2] % 16) * 4 + bytes[3] \div 64, bytes[3] % 64>>
                  \o base64Encode(SubSeq(bytes, 4, Len(bytes)))

\* lines 11-23: the data of the blob for the sample buffer `data`
createPcmBlob(data) ==
  base64Encode(Int16Bytes([i \in 1..Len(data) |-> quantize(data[i])]))

\* processor.onaudioprocess with the input buffer inputData: the blob is
\* handed to the live session; the last input and blob are kept, and the
\* blob of the callback before when that had the same input
onaudioprocess(inputData) ==
  /\ processors # {}
  /\ LET repeated == pcm # <<>> /\ pcm[1].input = inputData
         data == createPcmBlob(inputData)
     IN pcm' = <<[input |-> inputData, data |-> data, repeated |-> repeated,
                  before |-> IF repeated THEN pcm[1].data ELSE data]>>
  /\ UNCHANGED <<app, apiKey, stateVars, refVars, envVars, histVars>>

SampleBuffers == UNION {[1..n -> SampleNums] : n \in 0..MaxSamples}

\* a recording of either version with its audio callbacks
NextPcm ==
  \/ P1_startRecording(TRUE)
  \/ \E s \in starts : nStreams < OneRecording /\ P1_getUserMediaDone(s, TRUE, "running")
  \/ \E s \in starts : P1_onopen(s)
  \/ App_startRecording
  \/ \E s \in starts : nStreams < OneRecording /\ App_getUserMediaDone(s, TRUE, "running")
  \/ \E s \in starts : App_resumeDone(s, TRUE)
  \/ \E s \in starts : App_onopen(s)
  \/ \E inputData \in SampleBuffers : onaudioprocess(inputData)

InitPcm == Init /\ apiKey

SpecPcm == InitPcm /\ [][NextPcm]_vars

\* the bytes a base64 text stands for, and the 16-bit samples of a byte string
RECURSIVE Base64Bytes(_)
Base64Bytes(chars) ==
  IF chars = <<>> THEN <<>>
  ELSE LET a == chars[1]
           b == chars[2]
           c == chars[3]
           d == chars[4]
       IN <<a * 4 + b \div 16>>
            \o (IF c # 64 THEN <<(b % 16) * 16 + c \div 4>> ELSE <<>>)
            \o (IF d # 64 THEN <<(c % 4) * 64 + d>> ELSE <<>>)
            \o Base64Bytes(SubSeq(chars, 5, Len(chars)))

RECURSIVE BytesInt16(_)
BytesInt16(bytes) ==
  IF bytes = <<>> THEN <<>>
  ELSE LET u == bytes[1] + 256 * bytes[2]
       IN <<IF u >= 32768 THEN u - 65536 ELSE u>> \o BytesInt16(SubSeq(bytes, 3, Len(bytes)))

\* C23: createPcmBlob clamps every sample outside [-1, 1] to the nearest
\* bound before quantization, maps a sample of exactly -1 to -32768 and of
\* exactly 1 to 32767 with no 16-bit overflow or wraparound (the encoded
\* sample has the sign of the input), and returns the same encoded output
\* for the same input buffer.
C23_PcmClampedAndDeterministic ==
  pcm # <<>> =>
    LET in == pcm[1].input
        out == BytesInt16(Base64Bytes(pcm[1].data))
    IN /\ Len(out) = Len(in)
       /\ \A i \in 1..Len(in) :
            /\ in[i] >= SampleDen => out[i] = 32767
            /\ in[i] <= -SampleDen => out[i] = -32768
            /\ in[i] >= 0 => out[i] >= 0
            /\ in[i] < 0 => out[i] < 0
       /\ pcm[1].repeated => pcm[1].data = pcm[1].before

\* the buffer <<1.25, -1>> has been encoded twice in a row
C23_Witness ==
  /\ pcm # <<>>
  /\ pcm[1].input = <<SampleDen + 1, -SampleDen>>
  /\ pcm[1].repeated
  /\ BytesInt16(Base64Bytes(pcm[1].data)) = <<32767, -32768>>

\* ------------------------------------------------------------------------
\* transcript entries: active entry, ids, order
\* ------------------------------------------------------------------------

\* part_001 over two recordings: one is stopped and handed to diarization,
\* the session is reset, and a second one is started
NextTwoRecordings ==
  \/ P1_startRecording(TRUE)
  \/ \E s \in starts : P1_getUserMediaDone(s, TRUE, "running")
  \/ \E s \in starts : P1_onopen(s)
  \/ \E k \in Ids, size \in ChunkSizes : P1_ondataavailable(k, size)
  \/ P1_stopRecording
  \/ \E k \in Ids, size \in ChunkSizes : P1_recorderFinal(k, size)
  \/ P1_resetSession
  \/ \E i \in 1..MaxDiar : P1_encoded(i)
  \/ \E i \in 1..MaxDiar, resp \in DiarResponses : P1_diarizeDone(i, resp)
  \/ \E text \in FragTexts, d \in Deltas : nFrags < MaxFrags /\ P1_onmessage(text, d)

SpecTwoRecordings == InitMerge /\ [][NextTwoRecordings]_vars

\* C24: in every reachable state the active-entry reference is either empty
\* or the id of an entry present in the transcript: when the referenced entry
\* is removed (diarization replacement, reset) the reference is cleared.
C24_ActiveEntryPresent ==
  activeTranscriptIdRef = NullId \/ FindIndex(transcripts, activeTranscriptIdRef) # 0

\* part_001 live transcription with the generate button and with messages
\* that arrive within the millisecond of the previous clock reading
NextLive ==
  \/ NextMerge
  \/ P1_generateSummary
  \/ \E i \in 1..MaxGen, resp \in GenResponses : P1_generateDone(i, resp)
  \/ \E text \in FragTexts : nFrags < MaxMergeFrags /\ P1_onmessage(text, 0)

SpecLive == InitMerge /\ [][NextLive]_vars

\* the step is a live merge or an edit
MergeOrEditStep ==
  \/ \E text \in MergeTexts, d \in MergeDeltas \cup {0} : P1_onmessage(text, d)
  \/ \E i \in 1..Len(transcripts), newText \in EditTexts : EditStep(i, newText)

\* C25: in every reachable state no two entries of the transcript share an
\* id, and entries stay in insertion order: live-merge creation and append
\* and user edits never duplicate an id or move an existing entry.
C25_IdsUniqueOrderKept ==
  [][/\ \A i, j \in 1..Len(transcripts') :
          i # j => transcripts'[i].id # transcripts'[j].id
     /\ MergeOrEditStep =>
          /\ Len(transcripts') >= Len(transcripts)
          /\ \A i \in 1..Len(transcripts) : transcripts'[i].id = transcripts[i].id]_vars

\* a diarization call is issued by the step
DiarizationIssued == Len(diarCalls') > Len(diarCalls)

\* C26: on the Recording -> Processing transition the diarization call is
\* issued only after the recorder has stopped and its final data segment has
\* been added to the buffer, so the blob handed off holds every segment of
\* the session.
C26_CallAfterFinalSegment ==
  [][DiarizationIssued =>
       /\ \A k \in Ids : recorders'[k] \notin {"recording", "stopping"}
       /\ diarCalls'[Len(diarCalls')].blob = audioChunksRef']_vars

\* the step hands the non-blank fragment `text` to handleTranscriptChunk
FragmentStep(text) ==
  /\ text # <<>> /\ ~IsBlank(text)
  /\ \E d \in MergeDeltas \cup {0} : P1_onmessage(text, d)

\* C27: the continuation test of the live merge is strict and relative to the
\* most recent fragment of the active entry: a fragment that arrives strictly
\* less than 3000 ms after the last fragment that created or was appended to
\* the active entry is appended to it and clears its isFinal; at a gap of
\* 3000 ms or more a new entry is created with isFinal true; the age of the
\* entry itself plays no part.
C27_StrictRelativeContinuation ==
  [][\A text \in MergeTexts :
       LET k == FindIndex(transcripts, activeTranscriptIdRef)
           n == Len(transcripts)
       IN (FragmentStep(text) /\ k # 0 /\ frags # <<>>) =>
            IF now' - frags[Len(frags)].at < 3000
              THEN /\ Len(transcripts') = n
                   /\ transcripts'[k].text = transcripts[k].text \o text
                   /\ transcripts'[k].isFinal = FALSE
                   /\ activeTranscriptIdRef' = activeTranscriptIdRef
              ELSE /\ Len(transcripts') = n + 1
                   /\ transcripts'[n + 1].text = text
                   /\ transcripts'[n + 1].isFinal = TRUE
                   /\ activeTranscriptIdRef' = transcripts'[n + 1].id
                   /\ \A i \in 1..n : transcripts'[i] = transcripts[i]]_vars

\* a fragment 2999 ms after the first is appended, one exactly 3000 ms after
\* that starts the second entry, 5999 ms after the first entry was created
C27_Witness ==
  /\ Len(frags) = 3
  /\ frags[2].at - frags[1].at = 2999
  /\ frags[3].at - frags[2].at = 3000
  /\ Len(transcripts) = 2
  /\ transcripts[1].text = frags[1].text \o frags[2].text
  /\ ~transcripts[1].isFinal
  /\ transcripts[2].text = frags[3].text /\ transcripts[2].isFinal

\* a capture resource is active: a live microphone track, an open audio
\* context, a connected processor, an open live channel, or a recorder running
\* on live tracks (a recorder whose tracks have ended stops by itself)
CaptureActive ==
  \/ tracks # {} \/ contexts # {} \/ processors # {} \/ channels # {}
  \/ \E k \in Ids : recorders[k] = "recording" /\ k \in tracks

\* C28: in every reachable state with status IDLE or ERROR no capture
\* resource is active: microphone stream, audio processor and context,
\* recorder and live channel are all released.
C28_IdleMeansReleased == status \in {"IDLE", "ERROR"} => ~CaptureActive

\* C29: for each recording at most one diarization call is issued, whatever
\* number of stop requests are processed for it.  Where a single recording is
\* made, the calls pending at any time are calls issued for that recording,
\* so there is never more than one of them.
C29_OneCallPerRecording == Len(diarCalls) <= 1

\* the start button is rendered
StartAvailable == IF app = "part_001" THEN P1_canStart ELSE App_canStart

\* the recording has been stopped or a diarization has succeeded
SessionClosed == isSessionFinished \/ hasPostProcessed

\* C30: once a recording has been stopped (isSessionFinished) or a
\* diarization has succeeded (hasPostProcessed), no start request is accepted
\* and the start control is unavailable in every status, IDLE included, until
\* resetSession is performed; resetSession makes start available again.
C30_StartLockedUntilReset ==
  [][/\ (\E supported \in BOOLEAN : P1_startRecording(supported)) \/ App_startRecording
          => ~SessionClosed
     /\ (SessionClosed /\ ~ResetStep) => (SessionClosed' /\ ~StartAvailable')
     /\ ResetStep => (~SessionClosed' /\ status' = "IDLE" /\ StartAvailable')]_vars

\* the session is closed on both counts and idle: the diarized transcript is
\* shown and there is no start control
C30_Witness ==
  /\ status = "IDLE" /\ isSessionFinished /\ hasPostProcessed
  /\ transcripts # <<>>
  /\ ~StartAvailable

====
